---- MODULE Spec2Model ----
(***************************************************************************)
(* Copy generator of OpenNMT-py (onmt/modules/copy_generator.py): the      *)
(* Gumbel sampler with its annealed temperature, the composition of the    *)
(* extended distribution, the copy criterion and the loss computation.     *)
(*                                                                         *)
(* Reals are fixed-point integers: a real x is the integer x * ONE.        *)
(* A probability row is kept exactly, as integer numerators over one       *)
(* denominator, so that "sums to 1" is an exact statement.                 *)
(***************************************************************************)
EXTENDS Integers, Sequences, FiniteSets

\* ------------------------------------------------------------------ bounds

\* cap on annealing_steps for direct sampler calls
MaxSteps == 925
\* cap on annealing_steps for forward / loss calls
MaxCalls == 5
\* |tgt_dict|: ids 0 .. VocabSize-1
VocabSize == 3
\* cvocab: extra slots of src_map
ExtraSlots == 2
\* longest source
MaxSrcLen == 2
\* largest batch
MaxBatch == 2
\* longest batch.tgt (first row is the start token)
MaxTgtLen == 4
\* number of noise patterns of a loss call, of input patterns of a forward
\* call, of batch patterns of the training loop
NNoiseSeeds == 2
NInputSeeds == 3
NBatchSeeds == 3
\* number of (tag scores, noise) patterns of a direct sampler call
NSampleSeeds == 2
\* a score row of a criterion call has numerators over this denominator
RowUnits == 4
\* most tokens of a criterion call
MaxTok == 2

\* --------------------------------------------------------- fixed point

ONE == 10 * 1000
\* weights of a softmax are kept with this many units per 1.0
WScale == 10 * 10

\* F applied to the value of v: v is computed once, however often F uses it
With(v, F(_)) == CHOOSE r \in {F(x) : x \in {v}} : TRUE

Max2(a, b) == IF a >= b THEN a ELSE b
Abs(a) == IF a >= 0 THEN a ELSE -a

RECURSIVE SumSeq(_)
SumSeq(s) == IF s = <<>> THEN 0 ELSE Head(s) + SumSeq(Tail(s))

RECURSIVE MaxSeq(_)
MaxSeq(s) == IF Len(s) = 1 THEN s[1] ELSE Max2(Head(s), MaxSeq(Tail(s)))

\* exp(-f/ONE) * ONE for 0 <= f <= ONE, by Horner's rule on the Taylor series
RECURSIVE ExpHorner(_, _)
ExpHorner(f, k) ==
    IF k > 8 THEN ONE
    ELSE ONE - ((f * ExpHorner(f, k + 1)) \div (k * ONE))

ExpInv == ExpHorner(ONE, 1)

RECURSIVE ExpNegInt(_)
ExpNegInt(n) ==
    IF n = 0 THEN ONE
    ELSE IF n > 12 THEN 0
    ELSE (ExpNegInt(n - 1) * ExpInv) \div ONE

\* exp(x/ONE) * ONE for x <= 0
ExpFx(x) ==
    With(-x, LAMBDA y : (ExpNegInt(y \div ONE) * ExpHorner(y % ONE, 1)) \div ONE)

\* ln(a/b) * ONE for 1 <= a/b <= 2, by the atanh series
AtanhSeries(y) ==
    With((y * y) \div ONE, LAMBDA y2 :
        LET y3 == (y * y2) \div ONE
            y5 == (y3 * y2) \div ONE
            y7 == (y5 * y2) \div ONE
            y9 == (y7 * y2) \div ONE
        IN y + (y3 \div 3) + (y5 \div 5) + (y7 \div 7) + (y9 \div 9))

LnSeries(a, b) ==
    With(((a + b) \div 100000) + 1, LAMBDA s :
        With((((a \div s) - (b \div s)) * ONE) \div ((a \div s) + (b \div s)), LAMBDA y :
            2 * AtanhSeries(y)))

LN2 == LnSeries(2, 1)

\* ln(a/b) * ONE for a >= b > 0
RECURSIVE LnGE(_, _)
LnGE(a, b) == IF a >= 2 * b THEN LN2 + LnGE(a, 2 * b) ELSE LnSeries(a, b)

\* ln(n/d) * ONE for n, d > 0
LnFx(n, d) ==
    With(<<n, d>>, LAMBDA p : IF p[1] >= p[2] THEN LnGE(p[1], p[2]) ELSE -LnGE(p[2], p[1]))

\* ln(1e-20) * ONE: what log(x + eps) gives at x = 0
LnEps == -(20 * LnGE(10, 1))

\* log(x + eps) for x = n/d >= 0: eps = 1e-20 is far below the resolution of
\* any x > 0 and is absorbed by the floating-point addition
LogEps(n, d) == IF n = 0 THEN LnEps ELSE LnFx(n, d)

\* ------------------------------------------------------------- the state

VARIABLES
    annealing_steps,      \* CopyGenerator.annealing_steps
    normalizing_temp,     \* CopyGenerator.normalizing_temp
    force_copy,           \* CopyGeneratorLossCompute.force_copy
    normalize_by_length,  \* CopyGeneratorLossCompute.normalize_by_length
    supervise_tags,       \* CopyGeneratorLossCompute.supervise_tags
    batch,                \* the batch the training loop is working on
    cur,                  \* the time index the next shard starts at
    run,                  \* what the shards of this batch returned so far
    call,                 \* the last call: its operation and arguments
    ret                   \* what the last call returned or raised

vars == <<annealing_steps, normalizing_temp, force_copy, normalize_by_length,
          supervise_tags, batch, cur, run, call, ret>>

gen_vars == <<annealing_steps, normalizing_temp>>
cfg_vars == <<force_copy, normalize_by_length, supervise_tags>>
loop_vars == <<batch, cur, run>>

\* ------------------------------------------------------- input patterns

\* the k-th value (of n) of input pattern number seed
Pick(seed, k, n) == (seed + k * (1 + seed)) % n

TagVals == <<-ONE, 0, ONE>>
UVals == <<0, ONE \div 2, (9 * ONE) \div 10>>

\* tags[i][b] = <<score of "not selected", score of "selected">>
MakeTags(slen, bsize, seed) ==
    [i \in 1..slen |-> [b \in 1..bsize |->
        LET k == 2 * ((i - 1) * bsize + (b - 1))
        IN <<TagVals[1 + Pick(seed, k, 3)], TagVals[1 + Pick(seed, k + 1, 3)]>>]]

\* what torch.rand returned, one uniform draw per tag score
MakeNoise(slen, bsize, seed) ==
    [i \in 1..slen |-> [b \in 1..bsize |->
        LET k == 2 * ((i - 1) * bsize + (b - 1))
        IN <<UVals[1 + Pick(seed, k + 1, 3)], UVals[1 + Pick(seed, k, 3)]>>]]

\* ------------------------------------------------------------ the sampler

AnnealEvery == 5
TempFloor == (4 * ONE) \div 10
AnnealRate == ONE \div 1000

\* max(0.4, np.exp(-1e-3 * steps))
AnnealValue(steps) == Max2(TempFloor, ExpFx(-(AnnealRate * steps)))

\* a faulty variant: the temperature is computed from the counter before its increment
anneal_temperature_stale(steps, temp) ==
    [annealing_steps |-> steps + 1,
     normalizing_temp |-> IF (steps + 1) % AnnealEvery = 0
                          THEN AnnealValue(steps) ELSE temp]

anneal_temperature(steps, temp) ==
    LET s == steps + 1
    IN [annealing_steps |-> s,
        normalizing_temp |-> IF s % AnnealEvery = 0 THEN AnnealValue(s) ELSE temp]

\* U = -log(-log(U + eps) + eps), for the draws of UVals
Gumbel[u \in {UVals[k] : k \in 1..Len(UVals)}] == -LogEps(-LogEps(u, ONE), ONE)

\* softmax((tags + U) / temp) over the two scores, the "selected" entry
MaskEntry(t, u, temp) ==
    With(<<((t[1] + Gumbel[u[1]]) * ONE) \div temp,
           ((t[2] + Gumbel[u[2]]) * ONE) \div temp>>, LAMBDA x :
        With(<<ExpFx(x[1] - Max2(x[1], x[2])), ExpFx(x[2] - Max2(x[1], x[2]))>>, LAMBDA w :
            (w[2] * ONE) \div (w[1] + w[2])))

GumbelMask(tags, U, temp) ==
    [i \in DOMAIN tags |-> [b \in DOMAIN tags[i] |->
        MaskEntry(tags[i][b], U[i][b], temp)]]

\* the mask is computed with the temperature of before the call, then the
\* temperature is annealed
gumbel_sample(tags, U, steps, temp) ==
    With(GumbelMask(tags, U, temp), LAMBDA x :
        [mask |-> x, gen |-> anneal_temperature(steps, temp)])

InitTemps == {ONE \div 10, ONE}

NoBatch == [present |-> FALSE]
NoRun == [shards |-> 0]
NoCall == [op |-> "none"]
NoRet == [status |-> "none"]

Init ==
    /\ annealing_steps = 0
    /\ normalizing_temp \in InitTemps
    /\ force_copy \in BOOLEAN
    /\ normalize_by_length \in BOOLEAN
    /\ supervise_tags \in BOOLEAN
    /\ batch = NoBatch
    /\ cur = 0
    /\ run = NoRun
    /\ call = NoCall
    /\ ret = NoRet

\* a direct call of CopyGenerator._gumbel_sample
GumbelSample ==
    /\ annealing_steps < MaxSteps
    /\ \E slen \in 1..MaxSrcLen, bsize \in 1..MaxBatch, seed \in 0..(NSampleSeeds - 1) :
          \E tags \in {MakeTags(slen, bsize, seed)}, U \in {MakeNoise(slen, bsize, seed)} :
          \E r \in {gumbel_sample(tags, U, annealing_steps, normalizing_temp)} :
             /\ annealing_steps' = r.gen.annealing_steps
             /\ normalizing_temp' = r.gen.normalizing_temp
             /\ call' = [op |-> "gumbel_sample", tags |-> tags, U |-> U]
             /\ ret' = [status |-> "ok", mask |-> r.mask]
    /\ UNCHANGED <<cfg_vars, loop_vars>>

\* C5: a sampler call adds one to the step counter and computes its mask with
\* the temperature of before the call; the temperature changes only when the
\* counter reaches a multiple of 5, to max(0.4, exp(-0.001 * step)), so that
\* from the 5th call on it is max(0.4, exp(-0.001 * 5k)) for the last
\* multiple 5k of 5 reached, whatever it was at construction.
C5_AnnealSchedule ==
    /\ [](annealing_steps >= AnnealEvery =>
            normalizing_temp = AnnealValue(AnnealEvery * (annealing_steps \div AnnealEvery)))
    /\ [][call'.op = "gumbel_sample" =>
            /\ annealing_steps' = annealing_steps + 1
            /\ ret'.mask = GumbelMask(call'.tags, call'.U, normalizing_temp)
            /\ IF annealing_steps' % AnnealEvery = 0
               THEN normalizing_temp' = AnnealValue(annealing_steps')
               ELSE normalizing_temp' = normalizing_temp]_vars

\* C5: 920 calls were made and the temperature sits on its floor
C5_Witness ==
    /\ call.op = "gumbel_sample"
    /\ annealing_steps = 920
    /\ normalizing_temp = TempFloor
    /\ ExpFx(-(AnnealRate * annealing_steps)) < TempFloor

\* C6: the temperature never goes up from one sampler call to the next
C6_TemperatureNonIncreasing == [][normalizing_temp' <= normalizing_temp]_vars

\* the generator alone, before any loss computation is configured
InitSampler == Init /\ ~force_copy /\ ~normalize_by_length /\ ~supervise_tags

SpecSampler == InitSampler /\ [][GumbelSample]_vars

\* ------------------------------------------------------------- compose

\* tgt_dict.stoi[PAD_WORD]
PadIdx == 1
\* the unknown word of tgt_dict, and "no alignment"
UnkIdx == 0

LogitVals == <<-ONE, 0, ONE>>
AttnVals == <<0, ONE \div 2, ONE>>

\* exp(x/ONE) in weight units, for x <= 0
ExpW(x) == ExpFx(x) \div (ONE \div WScale)

\* hidden[r]: the row's image under self.linear (logits over tgt_dict) and
\* under self.linear_copy (z)
MakeHidden(rows, seed) ==
    [r \in 1..rows |->
        [logits |-> [v \in 1..VocabSize |-> LogitVals[1 + Pick(seed, r + v, 3)]],
         z |-> LogitVals[1 + Pick(seed, r, 3)]]]

MakeAttn(rows, slen, seed) ==
    [r \in 1..rows |-> [i \in 1..slen |-> AttnVals[1 + Pick(seed, r + i, 3)]]]

\* src_map[i][b]: the extra slot (1..ExtraSlots) source position i of example b
\* maps to, 0 when its indicator row is all zero
MakeSrcMap(slen, bsize, seed) ==
    [i \in 1..slen |-> [b \in 1..bsize |-> Pick(seed, i + b, ExtraSlots + 1)]]

\* softmax weights of the logits, the padding logit set to -inf
GenWeights(logits) ==
    With(MaxSeq([v \in 1..VocabSize |-> IF v - 1 = PadIdx THEN -ONE ELSE logits[v]]),
         LAMBDA m :
            [v \in 1..VocabSize |-> IF v - 1 = PadIdx THEN 0 ELSE ExpW(logits[v] - m)])

\* sigmoid(z) = c / (c + n)
CopyWeights(z) == [c |-> ExpW(z - Max2(z, 0)), n |-> ExpW(0 - Max2(z, 0))]

\* tag_out_pre.transpose(0, 1).unsqueeze(0).expand(rows, batch, slen)
\*            .view(-1, slen): rows * batch rows, row q of example q mod batch
TagOut(mask, rows, bsize, slen) ==
    [q \in 1..(rows * bsize) |-> [i \in 1..slen |-> mask[i][((q - 1) % bsize) + 1]]]

\* F.softmax(torch.mul(tag_out, attn) / 0.7, -1), as weights
AttnWeights(tag_row, attn_row) ==
    With([i \in DOMAIN attn_row |-> (((tag_row[i] * attn_row[i]) \div ONE) * 10) \div 7],
         LAMBDA x :
            With(MaxSeq(x), LAMBDA m : [i \in DOMAIN attn_row |-> ExpW(x[i] - m)]))

\* torch.bmm(mul_attn, src_map): the weight of the positions that map to slot
CopyMass(aw, src_col, slot) ==
    SumSeq([i \in DOMAIN aw |-> IF src_col[i] = slot THEN aw[i] ELSE 0])

\* one row of torch.cat([out_prob, copy_prob], 1): numerators over one
\* denominator; ids 0..VocabSize-1 are tgt_dict, the rest the extra slots
ScoreRow(h, tag_row, attn_row, src_col) ==
    With(<<GenWeights(h.logits), CopyWeights(h.z), AttnWeights(tag_row, attn_row)>>,
         LAMBDA w :
    With([g |-> w[1], zg |-> SumSeq(w[1]), cw |-> w[2], aw |-> w[3], za |-> SumSeq(w[3])],
         LAMBDA x :
       [num |-> [k \in 1..(VocabSize + ExtraSlots) |->
                    IF k <= VocabSize
                    THEN x.g[k] * x.cw.n * x.za
                    ELSE CopyMass(x.aw, src_col, k - VocabSize) * x.cw.c * x.zg],
        den |-> x.zg * (x.cw.c + x.cw.n) * x.za,
        p_copy |-> x.cw]))

\* CopyGenerator.forward
forward(hidden, attn, tags, U, src_map, steps, temp) ==
    LET rows  == Len(hidden)
        slen  == Len(attn[1])
        bsize == Len(src_map[1])
    IN IF Len(attn) # rows \/ Len(src_map) # slen
       THEN \* aeq fails before anything is computed
            [status |-> "AssertionError",
             gen |-> [annealing_steps |-> steps, normalizing_temp |-> temp]]
       ELSE With(gumbel_sample(tags, U, steps, temp), LAMBDA s :
            With(TagOut(s.mask, rows, bsize, slen), LAMBDA tag_out :
               IF Len(tag_out) # rows
               THEN \* tag_out has rows * batch rows and attn has rows: the
                    \* view of the expanded mask, or the product, raises
                    [status |-> "RuntimeError", gen |-> s.gen]
               ELSE [status |-> "ok", gen |-> s.gen, mask |-> s.mask,
                     scores |-> [r \in 1..rows |->
                        ScoreRow(hidden[r], tag_out[r], attn[r],
                                 [i \in 1..slen |-> src_map[i][((r - 1) % bsize) + 1]])]]))

Mismatches == {"none", "rows", "slen", "batch"}

\* a call of CopyGenerator.forward
Forward ==
    /\ annealing_steps < MaxCalls
    /\ \E bsize \in 1..MaxBatch, tlen \in 1..MaxTgtLen - 2, slen \in 1..MaxSrcLen,
          mm \in Mismatches, seed \in 0..(NInputSeeds - 1) :
          \E hidden \in {MakeHidden(IF mm = "batch" THEN (bsize + 1) * tlen ELSE bsize * tlen, seed)},
             attn \in {MakeAttn((IF mm = "batch" THEN (bsize + 1) * tlen ELSE bsize * tlen)
                                + (IF mm = "rows" THEN 1 ELSE 0), slen, seed)},
             tags \in {MakeTags(slen, bsize, seed)},
             U \in {MakeNoise(slen, bsize, seed)},
             src_map \in {MakeSrcMap(IF mm = "slen" THEN slen + 1 ELSE slen, bsize, seed)} :
          \E r \in {forward(hidden, attn, tags, U, src_map, annealing_steps, normalizing_temp)} :
             /\ annealing_steps' = r.gen.annealing_steps
             /\ normalizing_temp' = r.gen.normalizing_temp
             /\ call' = [op |-> "forward", hidden |-> hidden, attn |-> attn,
                         tags |-> tags, U |-> U, src_map |-> src_map]
             /\ ret' = [f \in DOMAIN r \ {"gen"} |-> r[f]]
    /\ UNCHANGED <<cfg_vars, loop_vars>>

SpecCompose == InitSampler /\ [][Forward]_vars

\* C1: every row forward returns has no negative entry and sums to 1, the
\* generate part to 1 - copySwitch and the copy part to copySwitch
C1_RowsAreDistributions ==
    (call.op = "forward" /\ ret.status = "ok") =>
        \A r \in DOMAIN ret.scores :
            LET row == ret.scores[r]
                gen == SumSeq(SubSeq(row.num, 1, VocabSize))
                cpy == SumSeq(SubSeq(row.num, VocabSize + 1, VocabSize + ExtraSlots))
                pz  == row.p_copy.c + row.p_copy.n
            IN /\ \A k \in DOMAIN row.num : row.num[k] >= 0
               /\ gen + cpy = row.den
               /\ gen * pz = row.p_copy.n * row.den
               /\ cpy * pz = row.p_copy.c * row.den

\* ----------------------------------------------------------- the criterion

B(p) == IF p THEN 1 ELSE 0

\* a faulty variant: the score of a target that is unk in align is added whether or
\* not the target is unk
crit_out_double(row, a, t, force) ==
    LET out == row.num[VocabSize + a + 1] * B(a # UnkIdx)
        tmp == row.num[t + 1]
    IN IF ~force
       THEN (out + tmp * B(t # UnkIdx)) + tmp * B(a = UnkIdx)
       ELSE out + tmp * B(a = UnkIdx)

\* a faulty variant: forced copy adds the target's score for every token
crit_out_leak(row, a, t, force) ==
    LET out == row.num[VocabSize + a + 1] * B(a # UnkIdx)
        tmp == row.num[t + 1]
    IN IF ~force
       THEN (out + tmp * B(t # UnkIdx)) + (tmp * B(a = UnkIdx)) * B(t = UnkIdx)
       ELSE out + tmp

\* the tensor out of CopyGeneratorCriterion.__call__ before the log, without
\* its eps: the numerator over row.den
crit_out(row, a, t, force) ==
    LET \* scores.gather(1, align + offset), times align_not_unk
        out == row.num[VocabSize + a + 1] * B(a # UnkIdx)
        \* scores.gather(1, target)
        tmp == row.num[t + 1]
    IN IF ~force
       THEN (out + tmp * B(t # UnkIdx)) + (tmp * B(a = UnkIdx)) * B(t = UnkIdx)
       ELSE out + tmp * B(a = UnkIdx)

\* a faulty variant: the padding positions are not dropped
crit_loss_keep_pad(out, den, t) == -LogEps(out, den)

\* -out.log().mul(target.ne(self.pad).float())
crit_loss(out, den, t) == (-LogEps(out, den)) * B(t # PadIdx)

\* CopyGeneratorCriterion.__call__: per token, out and the loss
criterion(scores, align, target, force) ==
    [j \in DOMAIN scores |->
        With(crit_out(scores[j], align[j], target[j], force), LAMBDA o :
            [out |-> o, loss |-> crit_loss(o, scores[j].den, target[j])])]

\* every distribution over the extended vocabulary in units of 1/RowUnits
ScoreRows ==
    {[num |-> f, den |-> RowUnits] :
        f \in {g \in [1..(VocabSize + ExtraSlots) -> 0..RowUnits] : SumSeq(g) = RowUnits}}

Rotate(f, d) == [k \in DOMAIN f |-> f[((k - 1 + d) % Len(f)) + 1]]

\* the arguments of a criterion call of n tokens
CriterionArgs ==
    {[op |-> "criterion",
      scores |-> [j \in 1..n |-> [num |-> Rotate(row.num, j - 1), den |-> row.den]],
      align |-> [j \in 1..n |-> (a + (j - 1) * da) % ExtraSlots],
      target |-> [j \in 1..n |-> (t + j - 1) % VocabSize]] :
        row \in ScoreRows, a \in 0..(ExtraSlots - 1), da \in 0..1,
        t \in 0..(VocabSize - 1), n \in 1..MaxTok}

\* a criterion built with either policy, about to be called
InitCriterion ==
    /\ annealing_steps = 0
    /\ normalizing_temp = ONE
    /\ force_copy \in BOOLEAN
    /\ normalize_by_length = FALSE
    /\ supervise_tags = FALSE
    /\ batch = NoBatch
    /\ cur = 0
    /\ run = NoRun
    /\ call \in CriterionArgs
    /\ ret = NoRet

\* the call of CopyGeneratorCriterion.__call__
CriterionCall ==
    /\ call.op = "criterion"
    /\ ret.status = "none"
    /\ \E r \in {criterion(call.scores, call.align, call.target, force_copy)} :
          ret' = [status |-> "ok",
                  out |-> [j \in DOMAIN r |-> r[j].out],
                  loss |-> [j \in DOMAIN r |-> r[j].loss]]
    /\ UNCHANGED <<gen_vars, cfg_vars, loop_vars, call>>

SpecCriterion == InitCriterion /\ [][CriterionCall]_vars

Scored == call.op = "criterion" /\ ret.status = "ok"

CopyScore(j) == call.scores[j].num[VocabSize + call.align[j] + 1]
GenScore(j) == call.scores[j].num[call.target[j] + 1]

\* C2: without forced copy the probability that is logged is
\* copyScore*[align # 0] + genScore*[target # unk] + genScore*[align = 0 and
\* target = unk]: genScore is counted once, and not at all exactly when the
\* target is unk and the alignment is not 0.
C2_EffectiveProbability ==
    (Scored /\ ~force_copy) =>
        \A j \in DOMAIN ret.out :
            LET a == call.align[j]
                t == call.target[j]
            IN /\ ret.out[j] = CopyScore(j) * B(a # 0) + GenScore(j) * B(t # UnkIdx)
                                + GenScore(j) * B(a = 0 /\ t = UnkIdx)
               /\ ret.out[j] = (IF a # 0 THEN CopyScore(j) ELSE 0)
                                + (IF t = UnkIdx /\ a # 0 THEN 0 ELSE GenScore(j))
               /\ ret.loss[j] = (IF t = PadIdx THEN 0
                                 ELSE -LogEps(ret.out[j], call.scores[j].den))

\* C2: a token with an alignment and a known target was scored, both scores > 0
C2_Witness ==
    /\ Scored /\ ~force_copy
    /\ \E j \in DOMAIN ret.out :
          /\ call.align[j] # 0 /\ call.target[j] = 2
          /\ CopyScore(j) > 0 /\ GenScore(j) > 0
          /\ ret.out[j] = CopyScore(j) + GenScore(j)
    /\ \E j \in DOMAIN ret.out :
          /\ call.align[j] # 0 /\ call.target[j] = UnkIdx
          /\ GenScore(j) > 0 /\ ret.out[j] = CopyScore(j)

\* the rows that agree with row on the extra slots
SameCopyPart(row) ==
    {r2 \in ScoreRows :
        \A k \in (VocabSize + 1)..(VocabSize + ExtraSlots) : r2.num[k] = row.num[k]}

\* C3: with forced copy, the loss of a token with an alignment is the same for
\* every other score row that agrees on the extra slots, whatever that row has
\* on tgt_dict; a token without alignment is scored on extendedDist[target].
C3_ForcedCopyIgnoresGenerate ==
    (Scored /\ force_copy) =>
        \A j \in DOMAIN ret.loss :
            IF call.align[j] # 0
            THEN \A r2 \in SameCopyPart(call.scores[j]) :
                    criterion(<<r2>>, <<call.align[j]>>, <<call.target[j]>>, TRUE)[1].loss
                        = ret.loss[j]
            ELSE ret.loss[j] = (IF call.target[j] = PadIdx THEN 0
                                ELSE -LogEps(GenScore(j), call.scores[j].den))

\* C3: a forced-copy token with an alignment whose row can be changed on
\* tgt_dict at the target, and a token without alignment
C3_Witness ==
    /\ Scored /\ force_copy
    /\ \E j \in DOMAIN ret.loss :
          /\ call.align[j] # 0 /\ call.target[j] = 2
          /\ \E r2 \in SameCopyPart(call.scores[j]) :
                r2.num[call.target[j] + 1] # GenScore(j)
          /\ ret.loss[j] > 0
    /\ \E j \in DOMAIN ret.loss : call.align[j] = 0 /\ call.target[j] # PadIdx

\* C4: the probability logged is in [0, 1], so that every loss is >= 0, and the
\* loss of a padding position is 0, under both policies
C4_LossNonNegative ==
    Scored =>
        \A j \in DOMAIN ret.loss :
            /\ ret.out[j] >= 0
            /\ ret.out[j] <= call.scores[j].den
            /\ ret.loss[j] >= 0
            /\ call.target[j] = PadIdx => ret.loss[j] = 0

\* C4: a padding position whose logged probability is below 1, beside a scored
\* position with a positive loss
C4_Witness ==
    /\ Scored
    /\ \E j \in DOMAIN ret.loss :
          /\ call.target[j] = PadIdx
          /\ ret.out[j] < call.scores[j].den
          /\ ret.loss[j] = 0
    /\ \E j \in DOMAIN ret.loss : call.target[j] # PadIdx /\ ret.loss[j] > 0

\* ------------------------------------------------------ the loss computation

\* tagging_penalty * 0.003
PenaltyPerMille == 3

\* the batch the iterator hands out next, with what the model computed on it:
\* tgt[t][b] (row 1 the start token, padding at the end of the shorter
\* examples), alignment (absent without -dynamic_dict), src_map, and per
\* target position the decoder output and copy attention, per source position
\* the tag scores
MakeBatch(bsize, tlen, slen, has_alignment, seed) ==
    LET len == [b \in 1..bsize |-> IF b = 1 THEN tlen ELSE Max2(2, tlen - (b - 1))]
        word(k) == IF Pick(seed, k, VocabSize) = PadIdx THEN UnkIdx
                   ELSE Pick(seed, k, VocabSize)
    IN [present |-> TRUE,
        batch_size |-> bsize,
        tlen |-> tlen,
        slen |-> slen,
        tgt |-> [t \in 1..tlen |-> [b \in 1..bsize |->
                    IF t > len[b] THEN PadIdx
                    ELSE IF t = 1 THEN VocabSize - 1
                    ELSE word(t + b)]],
        has_alignment |-> has_alignment,
        alignment |-> [t \in 1..tlen |-> [b \in 1..bsize |->
                    IF t > len[b] \/ t = 1 THEN 0
                    ELSE Pick(seed + 1, t + b, ExtraSlots)]],
        src_map |-> MakeSrcMap(slen, bsize, seed + 1),
        output |-> [t \in 1..tlen |-> MakeHidden(bsize, seed + t)],
        copy_attn |-> [t \in 1..tlen |-> MakeAttn(bsize, slen, seed + t)],
        tags |-> MakeTags(slen, bsize, seed)]

\* x[lo + 1 : hi] of a time-major tensor, then view(-1): rows lo+2 .. hi (counted
\* from 1), the examples of one row side by side
Bottle(x, lo, hi, bsize) ==
    [q \in 1..((hi - lo - 1) * bsize) |->
        x[lo + 2 + ((q - 1) \div bsize)][((q - 1) % bsize) + 1]]

\* a faulty variant: every unk target is rewritten, aligned or not
correct_target_all(target, align) ==
    [j \in DOMAIN target |->
        target[j] + (align[j] + VocabSize) * B(target[j] = UnkIdx)]

\* target_data + (align + len(tgt_vocab)) * (target_data.eq(0) * align.ne(0))
correct_target(target, align) ==
    [j \in DOMAIN target |->
        target[j] + (align[j] + VocabSize) * (B(target[j] = UnkIdx) * B(align[j] # 0))]

\* gumbel_tags.view(-1, 2)[:, 1].sum(): the mask, laid out source position by
\* source position, is cut in pairs and the second of each pair is summed
tagging_penalty(mask) ==
    LET bsize == Len(mask[1])
        n     == Len(mask) * bsize
    IN With([q \in 1..n |-> mask[((q - 1) \div bsize) + 1][((q - 1) % bsize) + 1]],
            LAMBDA flat : SumSeq([p \in 1..(n \div 2) |-> flat[2 * p]]))

\* batch.tgt.ne(pad_ix).float().sum(0)
tgt_lens(bt) ==
    [b \in 1..bt.batch_size |->
        SumSeq([t \in 1..bt.tlen |-> B(bt.tgt[t][b] # PadIdx)])]

\* torch.div(loss.view(-1, batch_size).sum(0), tgt_lens).sum()
normalized_loss(loss, bt) ==
    LET bsize == bt.batch_size
        steps == Len(loss) \div bsize
    IN With(tgt_lens(bt), LAMBDA lens :
        SumSeq([b \in 1..bsize |->
            SumSeq([t \in 1..steps |-> loss[(t - 1) * bsize + b]]) \div lens[b]]))

token_loss(loss, bt, normalize) ==
    IF normalize THEN normalized_loss(loss, bt) ELSE SumSeq(loss)

NoGen(steps, temp) == [annealing_steps |-> steps, normalizing_temp |-> temp]

\* a faulty variant: the alignment is looked for after the generator has run
compute_loss_late_check(bt, lo, hi, U, force, normalize, supervise, steps, temp) ==
    With(forward(Bottle(bt.output, lo, hi, bt.batch_size),
                 Bottle(bt.copy_attn, lo, hi, bt.batch_size),
                 bt.tags, U, bt.src_map, steps, temp), LAMBDA f :
        IF ~bt.has_alignment THEN [status |-> "AssertionError", gen |-> f.gen]
        ELSE [status |-> f.status, gen |-> f.gen])

\* CopyGeneratorLossCompute._make_shard_state followed by _compute_loss on
\* the shard range_ = (lo, hi)
compute_loss(bt, lo, hi, U, force, normalize, supervise, steps, temp) ==
    IF ~bt.has_alignment
    THEN \* _make_shard_state raises before the generator is called
         [status |-> "AssertionError", gen |-> NoGen(steps, temp)]
    ELSE
    With(<<Bottle(bt.tgt, lo, hi, bt.batch_size),
           Bottle(bt.alignment, lo, hi, bt.batch_size),
           forward(Bottle(bt.output, lo, hi, bt.batch_size),
                   Bottle(bt.copy_attn, lo, hi, bt.batch_size),
                   bt.tags, U, bt.src_map, steps, temp)>>, LAMBDA a :
    LET target == a[1]
        align  == a[2]
        f      == a[3]
    IN IF f.status # "ok" THEN [status |-> f.status, gen |-> f.gen]
       ELSE IF (bt.slen * bt.batch_size) % 2 # 0
       THEN \* view(-1, 2) of an odd number of mask entries
            [status |-> "RuntimeError", gen |-> f.gen]
       ELSE IF supervise
       THEN \* tagging_loss is the int 0: tagging_loss.data raises
            [status |-> "AttributeError", gen |-> f.gen]
       ELSE
       With(criterion(f.scores, align, target, force), LAMBDA crit :
       With([j \in DOMAIN crit |-> crit[j].loss], LAMBDA loss :
       With(<<tagging_penalty(f.mask), token_loss(loss, bt, normalize)>>, LAMBDA x :
          [status |-> "ok", gen |-> f.gen,
           loss |-> x[2] + ((x[1] * PenaltyPerMille) \div 1000),
           token_loss |-> x[2],
           tagging_penalty |-> x[1],
           mask |-> f.mask,
           crit_target |-> target,
           crit_align |-> align,
           per_token |-> loss,
           stats |-> [loss_data |-> SumSeq(loss),
                      target_data |-> correct_target(target, align)]]))))

\* the training loop takes the next batch off the iterator, once the shards of
\* the batch before are done; an exception ends the run
NextBatch ==
    /\ ret.status \in {"none", "ok"}
    /\ batch.present => cur = batch.tlen
    /\ annealing_steps < MaxCalls
    /\ \E bsize \in 1..MaxBatch, tlen \in 2..MaxTgtLen, slen \in 1..MaxSrcLen,
          has_alignment \in BOOLEAN, seed \in 0..(NBatchSeeds - 1) :
          batch' = MakeBatch(bsize, tlen, slen, has_alignment, seed)
    /\ cur' = 0
    /\ run' = NoRun
    /\ call' = [op |-> "next_batch"]
    /\ ret' = NoRet
    /\ UNCHANGED <<gen_vars, cfg_vars>>

\* the loss of the next shard of the batch: range_ = (cur, hi)
Accumulate ==
    /\ batch.present
    /\ ret.status \in {"none", "ok"}
    /\ annealing_steps < MaxCalls
    /\ \E hi \in (cur + 2)..batch.tlen, noise \in 0..(NNoiseSeeds - 1) :
          /\ hi = batch.tlen \/ hi <= batch.tlen - 2
          /\ \E U \in {MakeNoise(batch.slen, batch.batch_size, noise)} :
             \E r \in {compute_loss(batch, cur, hi, U, force_copy, normalize_by_length,
                                     supervise_tags, annealing_steps, normalizing_temp)} :
                /\ annealing_steps' = r.gen.annealing_steps
                /\ normalizing_temp' = r.gen.normalizing_temp
                /\ call' = [op |-> "accumulate", range_ |-> <<cur, hi>>, U |-> U]
                /\ ret' = [f \in DOMAIN r \ {"gen"} |-> r[f]]
                /\ cur' = hi
                /\ run' = IF r.status # "ok" THEN [shards |-> run.shards + 1]
                          ELSE IF run.shards = 0
                          THEN [shards |-> 1, total |-> r.loss, mask |-> r.mask,
                                same_mask |-> TRUE, U |-> U,
                                steps |-> annealing_steps, temp |-> normalizing_temp]
                          ELSE [run EXCEPT !.shards = @ + 1, !.total = @ + r.loss,
                                           !.same_mask = @ /\ r.mask = run.mask]
    /\ UNCHANGED <<cfg_vars, batch>>

Next == GumbelSample \/ Forward \/ CriterionCall \/ NextBatch \/ Accumulate

Spec == Init /\ [][Next]_vars

\* the training loop alone
SpecTrain == Init /\ [][NextBatch \/ Accumulate]_vars

Accumulated == call.op = "accumulate" /\ ret.status = "ok"

\* the target and alignment rows of the shard of the last call, flattened
ShardTarget == Bottle(batch.tgt, call.range_[1], call.range_[2], batch.batch_size)
ShardAlign == Bottle(batch.alignment, call.range_[1], call.range_[2], batch.batch_size)

\* C7: the target handed to the statistics is alignment + |tgt_dict| exactly
\* where the target is unk and the alignment is not 0, and the target itself
\* everywhere else; the criterion was given the uncorrected target and
\* alignment.
C7_CorrectedTarget ==
    Accumulated =>
        /\ \A j \in DOMAIN ShardTarget :
              ret.stats.target_data[j] =
                 (IF ShardTarget[j] = UnkIdx /\ ShardAlign[j] # 0
                  THEN ShardAlign[j] + VocabSize ELSE ShardTarget[j])
        /\ ret.crit_target = ShardTarget
        /\ ret.crit_align = ShardAlign

\* C7: a shard with an aligned unk target (rewritten), an unaligned unk target
\* and a known target (both kept)
C7_Witness ==
    /\ Accumulated
    /\ \E j \in DOMAIN ShardTarget :
          /\ ShardTarget[j] = UnkIdx /\ ShardAlign[j] # 0
          /\ ret.stats.target_data[j] = ShardAlign[j] + VocabSize
    /\ \E j \in DOMAIN ShardTarget :
          /\ ShardTarget[j] = UnkIdx /\ ShardAlign[j] = 0
          /\ ret.stats.target_data[j] = UnkIdx
    /\ \E j \in DOMAIN ShardTarget :
          ShardTarget[j] \notin {UnkIdx, PadIdx} /\ ShardAlign[j] # 0

\* C8: when the shards of a batch cover its whole time range and all used the
\* same mask, the losses they returned add up to the loss of the one shard
\* (0, tlen) computed from the state the first shard started in
C8_ShardingInvariance ==
    (Accumulated /\ cur = batch.tlen /\ run.same_mask) =>
        run.total = compute_loss(batch, 0, batch.tlen, run.U, force_copy,
                                 normalize_by_length, supervise_tags,
                                 run.steps, run.temp).loss

\* batch.tgt's tokens of example b that are not padding
NonPadLen(b) == Cardinality({t \in 1..batch.tlen : batch.tgt[t][b] # PadIdx})

\* the losses of example b's tokens in the shard, summed over time
ExampleLoss(b) ==
    SumSeq([t \in 1..(Len(ret.per_token) \div batch.batch_size) |->
                ret.per_token[(t - 1) * batch.batch_size + b]])

\* C9: with normalize_by_length, a loss call on a batch of several examples
\* returns the sum over the examples of (the example's token losses summed
\* over time) / (the example's non-padding length), here beside the selection
\* penalty of C12
C9_LengthNormalizedLoss ==
    (call.op = "accumulate" /\ batch.has_alignment /\ batch.batch_size >= 2
        /\ normalize_by_length /\ ~supervise_tags) =>
        /\ ret.status = "ok"
        /\ ret.loss - ((ret.tagging_penalty * PenaltyPerMille) \div 1000)
             = SumSeq([b \in 1..batch.batch_size |-> ExampleLoss(b) \div NonPadLen(b)])

\* C10: a loss call on a batch without alignment raises the configuration
\* error and returns nothing else, and leaves the sampler's step counter and
\* temperature as they were
C10_NoAlignmentFailsFast ==
    /\ []((call.op = "accumulate" /\ ~batch.has_alignment) =>
            ret = [status |-> "AssertionError"])
    /\ [][(call'.op = "accumulate" /\ ~batch'.has_alignment) =>
            (annealing_steps' = annealing_steps /\ normalizing_temp' = normalizing_temp)]_vars

\* C10: after a batch whose loss was computed, a batch without alignment was
\* refused
C10_Witness ==
    /\ call.op = "accumulate"
    /\ ~batch.has_alignment
    /\ ret.status = "AssertionError"
    /\ annealing_steps >= 1

\* the arguments of the last forward call disagree on an axis they share:
\* the rows of hidden and attn, the source length of attn and src_map, or
\* rows that are no multiple of src_map's batch
Mismatched ==
    /\ call.op = "forward"
    /\ \/ Len(call.attn) # Len(call.hidden)
       \/ Len(call.src_map) # Len(call.attn[1])
       \/ Len(call.hidden) % Len(call.src_map[1]) # 0

\* C11: a forward call whose arguments disagree on a shared axis is rejected
\* before anything is computed: it returns no distribution, and the step
\* counter and the temperature are what they were before the call
C11_MismatchRejectedFirst ==
    [][Mismatched' =>
          /\ ret'.status # "ok"
          /\ "scores" \notin DOMAIN ret'
          /\ annealing_steps' = annealing_steps
          /\ normalizing_temp' = normalizing_temp]_vars

\* the selected-channel value of the mask summed over every (source position,
\* example) pair
SelectionPenalty(mask) ==
    SumSeq([i \in DOMAIN mask |-> SumSeq(mask[i])])

\* C12: without a supervised tagging loss, a loss call returns the token loss
\* (length-normalized or not) plus 0.003 times the selection penalty, the sum
\* of the mask forward returned over all its entries
C12_LossAddsSelectionPenalty ==
    (Accumulated /\ ~supervise_tags) =>
        ret.loss = token_loss(ret.per_token, batch, normalize_by_length)
                     + ((SelectionPenalty(ret.mask) * PenaltyPerMille) \div 1000)

\* C13: for every batch size, a forward call on arguments that agree gets a
\* broadcast mask of one row per attention row, the row of (step, example b)
\* holding example b's mask values in source-position order, and so returns
\* its rows
C13_MaskBroadcastPerRow ==
    (call.op = "forward" /\ ~Mismatched) =>
        /\ ret.status = "ok"
        /\ LET rows    == Len(call.attn)
               bsize   == Len(call.src_map[1])
               slen    == Len(call.src_map)
               tag_out == TagOut(ret.mask, rows, bsize, slen)
           IN /\ Len(tag_out) = rows
              /\ \A r \in 1..rows :
                    tag_out[r] = [i \in 1..slen |-> ret.mask[i][((r - 1) % bsize) + 1]]

====
